---------------------------- MODULE Spec2Model ----------------------------
(***************************************************************************)
(* Opal card transaction scraper: login, period discovery, per-period      *)
(* ledger extraction with running-balance reconstruction, date-range       *)
(* filtering, and the three invocation shapes built on them (CLI run,      *)
(* POST /api/scrape, GET /api/scrape/stream).                              *)
(*                                                                         *)
(* Time.  A JS Date is an integer number of ticks; the Australia/Sydney    *)
(* calendar day of an instant t is t \div TicksPerDay, a month has         *)
(* DaysPerMonth days, and month 0 of the modelled calendar is Epoch.       *)
(* Money is an integer number of cents.                                    *)
(***************************************************************************)
EXTENDS Integers, Sequences, FiniteSets, TLC

VARIABLES
    \* ---- filterByDateRange applied to caller-chosen inputs
    fpc,            \* "in" | "out" | "again" : position of the filter harness
    fResults,       \* the list handed to filterByDateRange
    fStart, fEnd,   \* its bounds (an instant or Null)
    fOut,           \* filterByDateRange(fResults, fStart, fEnd)
    fWide,          \* filterByDateRange(fResults, fStart, fEnd + 1 day)
    fTwice          \* filterByDateRange(fOut, fStart, fEnd)

VARIABLES
    \* ---- the portal and the clock (inputs of a run, fixed during it)
    now,            \* DateTime.now(): the instant of the run
    items,          \* the .opal-selector__item elements, in page order
    options,        \* the <option>s of select.month-view-selector, in page order
    ledger,         \* ledger[i][k]: what the portal renders for item i, month k
    timeoutsLeft,   \* activity responses that will still time out in this run
    \* ---- getTransactions(context, startDate, endDate)
    gtpc,           \* "idle" | "start" | "card" | "month" | "filter" | "done" | "threw"
    reqStart, reqEnd,   \* the caller's startDate / endDate arguments
    startDate, endDate, \* the parameters as reassigned by the function
    cards,          \* cards collected from items
    monthsParsed,   \* parsed month options, sorted ascending
    monthsToUse,    \* the periods the loop iterates, in iteration order
    disableBankImported,
    ci, mj,         \* loop positions: index into cards, index into monthsToUse
    runningBalance, \* number | null
    rendered,       \* the activity region the page currently shows
    results,        \* the entries pushed so far
    selected,       \* history: card name and period of every selectOption call,
                    \* and whether the activity response arrived in time
    clicked,        \* history: the selector items clicked, in order
    filtered,       \* the array returned
    artifact        \* the file written: its name and the array in it

VARIABLES
    \* ---- one run: the CLI (index.ts), POST /api/scrape or GET /api/scrape/stream
    shape,          \* "cli" | "post" | "stream"
    rpc,            \* "request" | "login" | "logged" | "scrape" | "done"
    hasCreds,       \* username and password are both present in the request
    showBrowser,
    argStart, argEnd,   \* the window of the request, as Dates or null
    attempts,       \* calls of login made so far
    lo,             \* what the portal and the browser did during the last login
    loginErr,       \* message of the error the last login threw, "" when it returned
    browser,        \* "none" | "open" | "closed": the browser the last login launched
    context,        \* "none" | "open" | "closed": its context
    proc,           \* "running" | "exited": the Node process
    status,         \* HTTP status sent, 0 before any
    frames,         \* the event types written to the stream, in order
    resEnded,       \* res.end() was called
    lateWrites,     \* event types written after res.end()
    transactionStore,
    filename        \* the filename of the Content-Disposition header, "" before

VARIABLES
    \* ---- the streaming client (my-app: Scraper)
    running,        \* this.running
    eventSource,    \* this.eventSource: "null" | "open" (an EventSource object)
    sources,        \* the EventSource objects created and not closed
    message,        \* this.message, "" for null
    progressPercent,
    progressMessage,    \* "" for null
    received,       \* history: the events handled since the run started, each
                    \* with the message its handler showed ("" when none)
    runs            \* history: calls of run() that opened a stream

filterVars == <<fpc, fResults, fStart, fEnd, fOut, fWide, fTwice>>
runVars == <<shape, rpc, hasCreds, showBrowser, argStart, argEnd, attempts, lo,
             loginErr, browser, context, proc, status, frames, resEnded,
             lateWrites, transactionStore, filename>>
portalVars == <<now, items, options, ledger>>
gtVars == <<gtpc, reqStart, reqEnd, startDate, endDate, cards, monthsParsed,
            monthsToUse, disableBankImported, ci, mj, runningBalance, rendered,
            results, selected, clicked, filtered, artifact, timeoutsLeft>>
clientVars == <<running, eventSource, sources, message, progressPercent,
               progressMessage, received, runs>>
vars == <<filterVars, portalVars, gtVars, runVars, clientVars>>

\* what a step of getTransactions leaves alone
GtFrame == UNCHANGED <<filterVars, portalVars, runVars, clientVars>>

\* A value that may be absent (Date | null, number | null, or a parseInt result
\* that may be NaN) is a sequence of length at most one.
Null == <<>>
NaN == <<>>
Some(x) == <<x>>
Val(o) == o[1]

-----------------------------------------------------------------------------
(* Bounds of the model *)

NMonths == 3        \* calendar months modelled, from Epoch on
DaysPerMonth == 2   \* days in each modelled month
TicksPerDay == 2    \* instants distinguished within one Sydney day
MaxLen == 2         \* longest list handed to the filter harness
MaxCards == 2       \* most selector items that are cards
MaxItems == 2       \* most line items the portal shows for one card and month
MaxTimeouts == 1    \* most activity responses that time out in one run
MaxAttempts == 2    \* most calls of login in one CLI run
MaxEvents == 3      \* most progress frames handled in one run of the client
MaxRuns == 2        \* most streams one page opens

(* Program constants *)
MonthsPerYear == 12

\* Month 0 of the modelled calendar: November 2023 (month is 0-based as in
\* the source), so that the modelled months cross a year boundary.
Epoch == [month |-> 10, year |-> 2023]

-----------------------------------------------------------------------------
(* Luxon, Australia/Sydney *)

Days == 0 .. (NMonths * DaysPerMonth - 1)
Instants == 0 .. (NMonths * DaysPerMonth * TicksPerDay - 1)
OptInstants == {Null} \cup {Some(t) : t \in Instants}

SeqsUpTo(S, n) == UNION {[1 .. k -> S] : k \in 0 .. n}

\* DateTime.fromJSDate(d).setZone('Australia/Sydney'): the calendar day
SydneyDay(t) == t \div TicksPerDay
\* .startOf('day')
StartOfDay(t) == SydneyDay(t) * TicksPerDay
\* .endOf('day')
EndOfDay(t) == StartOfDay(t) + TicksPerDay - 1
\* months since Epoch of a calendar day
MonthOfDay(d) == d \div DaysPerMonth
\* { month: dt.month - 1, year: dt.year }
MYOfMonth(k) ==
    [month |-> (Epoch.month + k) % MonthsPerYear,
     year  |-> Epoch.year + ((Epoch.month + k) \div MonthsPerYear)]
MYOf(t) == MYOfMonth(MonthOfDay(SydneyDay(t)))
\* months since Epoch of a {month, year} pair
MonthsSinceEpoch(my) ==
    (my.year - Epoch.year) * MonthsPerYear + my.month - Epoch.month
\* DateTime.fromObject({year, month, day}, {zone}).startOf('day').toJSDate()
\* (month is 1-based here, day is 1-based)
FromObject(year, month1, day) ==
    ((((year - Epoch.year) * MonthsPerYear + (month1 - 1) - Epoch.month)
        * DaysPerMonth) + (day - 1)) * TicksPerDay

\* The text `${pad(month + 1)}-${pad(day)}-${year}` as its three fields;
\* dd is NaN when parseInt found no number in the header.
DateText(mm, dd, yyyy) == [mm |-> mm, dd |-> dd, yyyy |-> yyyy]
\* the MM-DD-YYYY text of calendar day d
DateTextOfDay(d) ==
    LET my == MYOfMonth(MonthOfDay(d))
    IN  DateText(my.month + 1, Some((d % DaysPerMonth) + 1), my.year)

\* DateTime.fromFormat(text, 'MM-dd-yyyy', {zone}).isValid
FromFormatValid(txd) ==
    /\ txd.dd # NaN
    /\ txd.mm \in 1 .. MonthsPerYear
    /\ Val(txd.dd) \in 1 .. DaysPerMonth
\* DateTime.fromFormat(text, 'MM-dd-yyyy', {zone}): Sydney midnight
FromFormat(txd) == FromObject(txd.yyyy, txd.mm, Val(txd.dd))

-----------------------------------------------------------------------------
(* filterByDateRange *)

RECURSIVE SelectSeqBy(_, _)
\* Array.prototype.filter with predicate keep[i] given per index
SelectSeqBy(s, keep) ==
    IF s = <<>> THEN <<>>
    ELSE LET rest == SelectSeqBy(Tail(s), [i \in 1 .. (Len(s) - 1) |-> keep[i + 1]])
         IN  IF keep[1] THEN <<Head(s)>> \o rest ELSE rest

\* A mutant: the start bound is compared as given, not as its Sydney midnight.
filterKeepRawStart(tx, start, end) ==
    LET startDT == IF start # Null THEN Some(Val(start)) ELSE Null
        endDT   == IF end # Null THEN Some(EndOfDay(Val(end))) ELSE Null
    IN  IF ~FromFormatValid(tx.transactionDate) THEN FALSE
        ELSE LET txDT == FromFormat(tx.transactionDate)
             IN  IF startDT = Null /\ endDT # Null THEN txDT <= Val(endDT)
                 ELSE IF startDT # Null /\ endDT = Null THEN txDT >= Val(startDT)
                 ELSE txDT >= Val(startDT) /\ txDT <= Val(endDT)

\* A mutant: the end bound keeps the entries on or after it.
filterKeepEndFlipped(tx, start, end) ==
    LET startDT == IF start # Null THEN Some(StartOfDay(Val(start))) ELSE Null
        endDT   == IF end # Null THEN Some(EndOfDay(Val(end))) ELSE Null
    IN  IF ~FromFormatValid(tx.transactionDate) THEN FALSE
        ELSE LET txDT == FromFormat(tx.transactionDate)
             IN  IF startDT = Null /\ endDT # Null THEN txDT >= Val(endDT)
                 ELSE IF startDT # Null /\ endDT = Null THEN txDT >= Val(startDT)
                 ELSE txDT >= Val(startDT) /\ txDT <= Val(endDT)

\* the callback of results.filter: called only when a bound is present
filterKeep(tx, start, end) ==
    LET startDT == IF start # Null THEN Some(StartOfDay(Val(start))) ELSE Null
        endDT   == IF end # Null THEN Some(EndOfDay(Val(end))) ELSE Null
    IN  IF ~FromFormatValid(tx.transactionDate) THEN FALSE
        ELSE LET txDT == FromFormat(tx.transactionDate)
             IN  IF startDT = Null /\ endDT # Null THEN txDT <= Val(endDT)
                 ELSE IF startDT # Null /\ endDT = Null THEN txDT >= Val(startDT)
                 ELSE txDT >= Val(startDT) /\ txDT <= Val(endDT)

filterByDateRange(list, start, end) ==
    IF start = Null /\ end = Null THEN list
    ELSE SelectSeqBy(list,
            [i \in 1 .. Len(list) |-> filterKeep(list[i], start, end)])

-----------------------------------------------------------------------------
(* getTransactions: helpers *)

\* pad(n): n.toString().padStart(2, "0")
pad(n) == IF n < 10 THEN "0" \o ToString(n) ELSE ToString(n)

\* runningBalance.toFixed(2), the balance being a number of cents
toFixed2(c) ==
    LET a == IF c < 0 THEN 0 - c ELSE c
    IN  (IF c < 0 THEN "-" ELSE "") \o ToString(a \div 100) \o "." \o pad(a % 100)

\* Math.abs
Abs(n) == IF n < 0 THEN 0 - n ELSE n

\* texts (amount text or description) the top-up test matches:
\* /top\s*-?\s*up|topup|recharge|credited|add funds|load|load funds|added/i
\* or a text containing "top"
TopUpTexts == {"Top up", "Auto top-up", "Recharge", "Elizabeth St Stop"}
ChargeTexts == {"", "Trip fare", "Central to Town Hall"}

\* A mutant: a top up keeps the sign written in the amount text.
parseAmountFaceValue(raw, description) ==
    LET isTopUp == raw.words \in TopUpTexts \/ description \in TopUpTexts
        amount  == IF raw.num = NaN THEN 0
                   ELSE IF raw.sign = "-" THEN 0 - Val(raw.num) ELSE Val(raw.num)
    IN  IF isTopUp THEN amount ELSE 0 - Abs(amount)

\* parseAmount(raw, description).quantity, in cents.  The raw amount text is
\* its words, the sign written before the number ("", "+" or "-") and the
\* number (NaN when the text holds no number).
parseAmount(raw, description) ==
    LET isTopUp == raw.words \in TopUpTexts \/ description \in TopUpTexts
        amount  == IF raw.num = NaN THEN 0
                   ELSE IF raw.sign = "-" THEN 0 - Val(raw.num) ELSE Val(raw.num)
    IN  IF isTopUp THEN Abs(amount) ELSE 0 - Abs(amount)

MonthNames == <<"Jan", "Feb", "Mar", "Apr", "May", "Jun",
                "Jul", "Aug", "Sep", "Oct", "Nov", "Dec">>

\* parseOpalDate(dateText): the header text is its whitespace-separated
\* parts  <weekday> <day> <month name> <year>; day is NaN when parts[1]
\* holds no number.  Null when there are fewer than four parts or the month
\* name is not in the table.
parseOpalDate(dateText) ==
    IF dateText.parts < 4 THEN Null
    ELSE IF \A i \in 1 .. MonthsPerYear : MonthNames[i] # dateText.mon THEN Null
    ELSE Some([day   |-> dateText.day,
               month |-> (CHOOSE i \in 1 .. MonthsPerYear : MonthNames[i] = dateText.mon) - 1,
               year  |-> dateText.year])

\* monthCmp(a, b)
monthCmp(a, b) == IF a.year # b.year THEN a.year - b.year ELSE a.month - b.month

RECURSIVE InsertSorted(_, _, _)
\* x placed after the elements of the ascending (desc = FALSE) or descending
\* list s that do not come after it
InsertSorted(s, x, desc) ==
    IF s = <<>> THEN <<x>>
    ELSE IF (IF desc THEN monthCmp(x, Head(s)) ELSE monthCmp(Head(s), x)) > 0
         THEN <<x>> \o s
         ELSE <<Head(s)>> \o InsertSorted(Tail(s), x, desc)

RECURSIVE SortMonths(_, _)
\* Array.prototype.sort (stable) with monthCmp(a, b), or monthCmp(b, a) when desc
SortMonths(s, desc) ==
    IF s = <<>> THEN <<>>
    ELSE InsertSorted(SortMonths(SubSeq(s, 1, Len(s) - 1), desc), s[Len(s)], desc)

RECURSIVE CollectCardsUnblocked(_, _)
\* A mutant: the text of the item is not tested for "blocked".
CollectCardsUnblocked(its, i) ==
    IF i > Len(its) THEN <<>>
    ELSE IF its[i].text.empty \/ its[i].text.linkCard THEN CollectCardsUnblocked(its, i + 1)
    ELSE <<[element |-> i, blocked |-> FALSE, name |-> its[i].text.name]>>
            \o CollectCardsUnblocked(its, i + 1)

\* collect cards: skip an empty text and the "link card" item
RECURSIVE CollectCards(_, _)
CollectCards(its, i) ==
    IF i > Len(its) THEN <<>>
    ELSE IF its[i].text.empty \/ its[i].text.linkCard THEN CollectCards(its, i + 1)
    ELSE <<[element |-> i, blocked |-> its[i].text.blocked, name |-> its[i].text.name]>>
            \o CollectCards(its, i + 1)

\* parse the month options: skip "last 7 days" and labels without a month
\* name and a 4-digit year
RECURSIVE ParseOptions(_)
ParseOptions(opts) ==
    IF opts = <<>> THEN <<>>
    ELSE IF Head(opts).kind # "month" THEN ParseOptions(Tail(opts))
    ELSE <<[value |-> Head(opts).value,
            month |-> MYOfMonth(Head(opts).value).month,
            year  |-> MYOfMonth(Head(opts).value).year]>> \o ParseOptions(Tail(opts))

\* first day of the earliest discovered period, Sydney midnight
EarliestDT(mp) == FromObject(mp[1].year, mp[1].month + 1, 1)

\* A mutant: a start before the earliest period is kept as given.
EffectiveStartNoClamp(start, mp) ==
    IF start = Null /\ Len(mp) > 0 THEN Some(EarliestDT(mp)) ELSE start

\* startDate after defaulting (lines 423-428) and clamping (lines 446-453)
EffectiveStart(start, mp) ==
    LET defaulted == IF start = Null /\ Len(mp) > 0 THEN Some(EarliestDT(mp)) ELSE start
    IN  IF defaulted # Null /\ Len(mp) > 0 /\ StartOfDay(Val(defaulted)) < EarliestDT(mp)
        THEN Some(EarliestDT(mp)) ELSE defaulted

\* endDate after defaulting to today (lines 429-432)
EffectiveEnd(end, t) == IF end = Null THEN Some(StartOfDay(t)) ELSE end

\* startMY as the loop sees it, from the effective start (lines 435-469)
StartMY(start, mp) ==
    IF start # Null THEN Some(MYOf(Val(start)))
    ELSE IF Len(mp) > 0 THEN Some([month |-> mp[1].month, year |-> mp[1].year])
    ELSE Null

\* endMY as the loop sees it, from the effective end
EndMY(end, mp) ==
    IF end # Null THEN Some(MYOf(Val(end)))
    ELSE IF Len(mp) > 0 THEN Some([month |-> mp[Len(mp)].month, year |-> mp[Len(mp)].year])
    ELSE Null

\* A mutant: no suppression for an end date before today.
DisableNever(end, t) == FALSE

\* disableBankImported (lines 474-481)
DisableBankImported(end, t) == end # Null /\ Val(end) < StartOfDay(t)

\* A mutant: the range excludes the end month.
InMonthRangeEndExclusive(m, startMY, endMY) ==
    monthCmp(startMY, m) <= 0 /\ monthCmp(m, endMY) < 0

\* the filter callback of lines 486-489
InMonthRange(m, startMY, endMY) ==
    monthCmp(startMY, m) <= 0 /\ monthCmp(m, endMY) <= 0

\* A mutant: the periods in range are iterated in the order of monthsParsed.
MonthsToUseUnsorted(mp, startMY, endMY) ==
    IF startMY # Null /\ endMY # Null
    THEN SelectSeqBy(mp,
            [i \in 1 .. Len(mp) |-> InMonthRange(mp[i], Val(startMY), Val(endMY))])
    ELSE mp

\* monthsToUse (lines 484-495)
MonthsToUse(mp, startMY, endMY) ==
    IF startMY # Null /\ endMY # Null
    THEN SortMonths(SelectSeqBy(mp,
            [i \in 1 .. Len(mp) |-> InMonthRange(mp[i], Val(startMY), Val(endMY))]), TRUE)
    ELSE SortMonths(mp, TRUE)

\* A mutant: the entry's amount is subtracted before the stamp is taken.
StampAfter(rb, quantity, disable) ==
    IF ~disable /\ rb # Null THEN Some(toFixed2(Val(rb) - quantity)) ELSE Null

\* A mutant: the amount is added to the running balance.
NextBalanceAdd(rb, quantity) ==
    IF rb # Null THEN Some(Val(rb) + quantity) ELSE Null

\* A mutant: the entry is stamped whatever the suppression flag says.
StampIgnoringFlag(rb, quantity, disable) ==
    IF rb # Null THEN Some(toFixed2(Val(rb))) ELSE Null

\* bankImportedBalance of the entry being pushed (lines 543-546)
Stamp(rb, quantity, disable) ==
    IF ~disable /\ rb # Null THEN Some(toFixed2(Val(rb))) ELSE Null

\* runningBalance after the entry (lines 547-549)
NextBalance(rb, quantity) ==
    IF rb # Null THEN Some(Val(rb) - quantity) ELSE Null

\* A mutant: only a charge is posted.
StatusOfCharge(quantity) == IF quantity < 0 THEN "posted" ELSE "pending"

\* status of the entry being pushed (line 562)
StatusOf(quantity) == IF quantity # 0 THEN "posted" ELSE "pending"

\* the line items of one block (lines 532-565): the entries pushed and the
\* running balance after them
RECURSIVE ExtractItems(_, _, _, _, _)
ExtractItems(its, transactionDate, name, rb, disable) ==
    IF its = <<>> THEN [out |-> <<>>, rb |-> rb]
    ELSE LET quantity == parseAmount(Head(its).amount, Head(its).description)
             entry == [transactionDate |-> transactionDate,
                       quantity |-> quantity,
                       accountId |-> name,
                       status |-> StatusOf(quantity),
                       bankImportedBalance |-> Stamp(rb, quantity, disable)]
             rest == ExtractItems(Tail(its), transactionDate, name,
                                  NextBalance(rb, quantity), disable)
         IN  [out |-> <<entry>> \o rest.out, rb |-> rest.rb]

RECURSIVE ExtractBlocksLosingBalance(_, _, _, _)
\* A mutant: the running balance is dropped where the blocks end, and so
\* where there is no block at all.
ExtractBlocksLosingBalance(blocks, name, rb, disable) ==
    IF blocks = <<>> THEN [out |-> <<>>, rb |-> Null]
    ELSE LET parsedDate == parseOpalDate(Head(blocks).dateText)
         IN  IF parsedDate = Null
             THEN ExtractBlocksLosingBalance(Tail(blocks), name, rb, disable)
             ELSE LET transactionDate ==
                          DateText(Val(parsedDate).month + 1, Val(parsedDate).day,
                                   Val(parsedDate).year)
                      here == ExtractItems(Head(blocks).items, transactionDate, name,
                                           rb, disable)
                      rest == ExtractBlocksLosingBalance(Tail(blocks), name, here.rb, disable)
                  IN  [out |-> here.out \o rest.out, rb |-> rest.rb]

\* the blocks of the rendered activity region (lines 524-566)
RECURSIVE ExtractBlocks(_, _, _, _)
ExtractBlocks(blocks, name, rb, disable) ==
    IF blocks = <<>> THEN [out |-> <<>>, rb |-> rb]
    ELSE LET parsedDate == parseOpalDate(Head(blocks).dateText)
         IN  IF parsedDate = Null THEN ExtractBlocks(Tail(blocks), name, rb, disable)
             ELSE LET transactionDate ==
                          DateText(Val(parsedDate).month + 1, Val(parsedDate).day,
                                   Val(parsedDate).year)
                      here == ExtractItems(Head(blocks).items, transactionDate, name,
                                           rb, disable)
                      rest == ExtractBlocks(Tail(blocks), name, here.rb, disable)
                  IN  [out |-> here.out \o rest.out, rb |-> rest.rb]

\* the activity region before any period of a card was selected: no
\* .activity-by-date-container (the region is the sequence of its blocks)
NoActivity == <<>>

\* `${pad(month)}-${pad(day)}-${year}` of the calendar day d
DateString(d) ==
    pad(MYOfMonth(MonthOfDay(d)).month + 1) \o "-" \o pad((d % DaysPerMonth) + 1)
        \o "-" \o ToString(MYOfMonth(MonthOfDay(d)).year)

\* fmtDate(d) (lines 289-293): the Sydney date of the instant as MM-DD-YYYY
fmtDate(t) == DateString(SydneyDay(t))

\* the filename of the artifact (lines 577-586), from startDate and endDate
\* as they are when the loop is over
ArtifactName(start, end) ==
    IF start = Null /\ end = Null THEN "transactions_all.json"
    ELSE IF start = Null THEN "transactions_earliest_" \o fmtDate(Val(end)) \o ".json"
    ELSE IF end = Null THEN "transactions_" \o fmtDate(Val(start)) \o "_latest.json"
    ELSE "transactions_" \o fmtDate(Val(start)) \o "_" \o fmtDate(Val(end)) \o ".json"

\* no file was written
NoArtifact == [name |-> "", content |-> <<>>]

-----------------------------------------------------------------------------
(* getTransactions: the steps *)

\* Lines 283-495: open the account page, collect the cards, parse and sort
\* the month options, default and clamp the window, choose the periods.
GtDiscover ==
    /\ gtpc = "start"
    /\ Len(items) > 0       \* waitForSelector('.opal-selector__item') resolves
    /\ LET mp == SortMonths(ParseOptions(options), FALSE)
           s  == EffectiveStart(startDate, mp)
           e  == EffectiveEnd(endDate, now)
       IN  /\ cards' = CollectCards(items, 1)
           /\ monthsParsed' = mp
           /\ startDate' = s
           /\ endDate' = e
           /\ disableBankImported' = DisableBankImported(e, now)
           /\ monthsToUse' = MonthsToUse(mp, StartMY(s, mp), EndMY(e, mp))
    /\ ci' = 1
    /\ gtpc' = "card"
    /\ UNCHANGED <<reqStart, reqEnd, mj, runningBalance, rendered, results,
                   selected, clicked, filtered, artifact, timeoutsLeft>>
    /\ GtFrame

\* Line 499: a blocked card is skipped.
GtSkipBlocked ==
    /\ gtpc = "card"
    /\ ci <= Len(cards)
    /\ cards[ci].blocked
    /\ ci' = ci + 1
    /\ UNCHANGED <<gtpc, reqStart, reqEnd, startDate, endDate, cards, monthsParsed,
                   monthsToUse, disableBankImported, mj, runningBalance, rendered,
                   results, selected, clicked, filtered, artifact, timeoutsLeft>>
    /\ GtFrame

\* Lines 500-512: click the card and read its displayed balance.
GtClickCard ==
    /\ gtpc = "card"
    /\ ci <= Len(cards)
    /\ ~cards[ci].blocked
    /\ clicked' = Append(clicked, cards[ci].element)
    /\ runningBalance' = items[cards[ci].element].balance
    /\ rendered' = NoActivity
    /\ IF monthsToUse = <<>>
       THEN ci' = ci + 1 /\ UNCHANGED <<gtpc, mj>>
       ELSE mj' = 1 /\ gtpc' = "month" /\ UNCHANGED ci
    /\ UNCHANGED <<reqStart, reqEnd, startDate, endDate, cards, monthsParsed,
                   monthsToUse, disableBankImported, results, selected, filtered, artifact,
                   timeoutsLeft>>
    /\ GtFrame

\* Lines 513-571 for the period monthsToUse[mj], the page showing `shown`
\* once the wait for the activity response is over.
GtPeriod(shown, arrived) ==
    LET card == cards[ci]
        m    == monthsToUse[mj]
        ex   == ExtractBlocks(shown, card.name, runningBalance, disableBankImported)
    IN  /\ selected' = Append(selected, [accountId |-> card.name, value |-> m.value,
                                          arrived |-> arrived])
        /\ rendered' = shown
        /\ results' = results \o ex.out
        /\ runningBalance' = ex.rb
        /\ IF mj = Len(monthsToUse)
           THEN ci' = ci + 1 /\ gtpc' = "card" /\ UNCHANGED mj
           ELSE mj' = mj + 1 /\ UNCHANGED <<ci, gtpc>>
        /\ UNCHANGED <<reqStart, reqEnd, startDate, endDate, cards, monthsParsed,
                       monthsToUse, disableBankImported, clicked, filtered, artifact>>

\* The activity response arrives and the page renders the selected period.
GtSelectMonth ==
    /\ gtpc = "month"
    /\ GtPeriod(ledger[cards[ci].element][monthsToUse[mj].value], TRUE)
    /\ UNCHANGED timeoutsLeft
    /\ GtFrame

\* waitForResponse(...).catch(() => {}): the wait fails and the page still
\* shows what it showed before.
GtSelectMonthTimeout ==
    /\ gtpc = "month"
    /\ timeoutsLeft > 0
    /\ timeoutsLeft' = timeoutsLeft - 1
    /\ GtPeriod(rendered, FALSE)
    /\ GtFrame

\* Line 498: the card loop is over.
GtLoopEnd ==
    /\ gtpc = "card"
    /\ ci > Len(cards)
    /\ gtpc' = "filter"
    /\ UNCHANGED <<reqStart, reqEnd, startDate, endDate, cards, monthsParsed,
                   monthsToUse, disableBankImported, ci, mj, runningBalance, rendered,
                   results, selected, clicked, filtered, artifact, timeoutsLeft>>
    /\ GtFrame

\* Lines 573-592: filter, write the artifact, return.
GtFilter ==
    /\ gtpc = "filter"
    /\ filtered' = filterByDateRange(results, startDate, endDate)
    /\ artifact' = [name |-> ArtifactName(startDate, endDate),
                    content |-> filterByDateRange(results, startDate, endDate)]
    /\ gtpc' = "done"
    /\ UNCHANGED <<reqStart, reqEnd, startDate, endDate, cards, monthsParsed,
                   monthsToUse, disableBankImported, ci, mj, runningBalance, rendered,
                   results, selected, clicked, timeoutsLeft>>
    /\ GtFrame

\* An awaited page call rejects (page.goto, the wait for the selector items,
\* a click, selectOption) or the month selector is missing (line 375).
GtThrow ==
    /\ gtpc \in {"start", "card", "month"}
    /\ gtpc' = "threw"
    /\ UNCHANGED <<reqStart, reqEnd, startDate, endDate, cards, monthsParsed,
                   monthsToUse, disableBankImported, ci, mj, runningBalance, rendered,
                   results, selected, clicked, filtered, artifact, timeoutsLeft>>
    /\ GtFrame

GtNext ==
    \/ GtDiscover \/ GtSkipBlocked \/ GtClickCard \/ GtSelectMonth
    \/ GtSelectMonthTimeout \/ GtLoopEnd \/ GtFilter \/ GtThrow

\* the locals of getTransactions when it is called with (start, end)
GtCalled(start, end) ==
    /\ gtpc = "start"
    /\ reqStart = start /\ reqEnd = end
    /\ startDate = start /\ endDate = end
    /\ cards = <<>> /\ monthsParsed = <<>> /\ monthsToUse = <<>>
    /\ disableBankImported = FALSE
    /\ ci = 0 /\ mj = 0
    /\ runningBalance = Null
    /\ rendered = NoActivity
    /\ results = <<>> /\ selected = <<>> /\ clicked = <<>> /\ filtered = <<>>
    /\ artifact = NoArtifact

\* getTransactions is not running
GtIdle ==
    /\ gtpc = "idle"
    /\ reqStart = Null /\ reqEnd = Null
    /\ startDate = Null /\ endDate = Null
    /\ cards = <<>> /\ monthsParsed = <<>> /\ monthsToUse = <<>>
    /\ disableBankImported = FALSE
    /\ ci = 0 /\ mj = 0
    /\ runningBalance = Null
    /\ rendered = NoActivity
    /\ results = <<>> /\ selected = <<>> /\ clicked = <<>> /\ filtered = <<>>
    /\ artifact = NoArtifact

-----------------------------------------------------------------------------
(* login *)

\* text.toLowerCase() of the texts the error element may show
LowerOf(text) ==
    CASE text = "Invalid username or password" -> "invalid username or password"
      [] text = "INCORRECT details" -> "incorrect details"
      [] text = "Service unavailable" -> "service unavailable"
      [] OTHER -> text

\* /invalid|incorrect|wrong|not match|password|username|email/.test(lower)
MatchesCredentialWords(lower) ==
    lower \in {"invalid username or password", "incorrect details"}

ErrorTexts == {"Invalid username or password", "INCORRECT details",
               "Service unavailable", ""}

\* What happens during one call of login:
\*   launch  chromium.launch resolves ("ok") or rejects ("throws")
\*   setup   newContext .. click all resolve ("ok"), the login frame is
\*           missing ("noframe"), or one of the awaited calls rejects ("throws")
\*   race    the value Promise.race yields: "success", "error", or the
\*           "no-success" / "no-error" of a wait that failed or timed out
\*   later   what the wait that lost the race yields within its own bound:
\*           after "no-error" the navigation may still complete ("success"),
\*           after "no-success" the error element may still appear ("error"),
\*           "none" when it yields nothing or when the race was won by a
\*           wait that succeeded
\*   text    the inner text of the error element ("" also when reading it threw)
\*   urlOk   page.url() includes '/opal-view/#/account/cards' at the fallback check
LoginOutcomes ==
    {o \in [launch : {"ok", "throws"}, setup : {"ok", "noframe", "throws"},
            race : {"success", "error", "no-success", "no-error"},
            later : {"none", "success", "error"},
            text : ErrorTexts, urlOk : BOOLEAN] :
        \/ o.later = "none"
        \/ o.race = "no-error" /\ o.later = "success"
        \/ o.race = "no-success" /\ o.later = "error"}

NoOutcome == [launch |-> "none", setup |-> "none", race |-> "none",
              later |-> "none", text |-> "", urlOk |-> FALSE]

\* A mutant: the catch block rethrows without closing the browser.
LoginCatchNoClose(b) == b

\* lines 267-272: the catch block closes the browser if one was launched
LoginCatch(b) == IF b = "none" THEN "none" ELSE "closed"

\* A mutant: the fallback failure is reported as invalid credentials.
FallbackErrorAsCredentials == "InvalidCredentials"

\* line 266: the error thrown when the fallback URL check fails
FallbackError == "LoginFailed"

\* line 252: the error thrown when the error element appeared, whatever its text
ErrorElementError(text) == "InvalidCredentials"

\* login(username, password, showBrowser) under outcome o: the message of the
\* error thrown ("" when the context is returned) and the state of the browser
\* and of the context when the call is over
login(o) ==
    IF o.launch = "throws"
    THEN [err |-> "browserType.launch: failed", browser |-> LoginCatch("none"),
          context |-> "none"]
    ELSE IF o.setup = "throws"
    THEN [err |-> "Timeout 6000ms exceeded", browser |-> LoginCatch("open"),
          context |-> "closed"]
    ELSE IF o.setup = "noframe"
    THEN [err |-> "Could not find Opal login frame", browser |-> LoginCatch("open"),
          context |-> "closed"]
    ELSE IF o.race = "success"
    THEN [err |-> "", browser |-> "open", context |-> "open"]
    ELSE IF o.race = "error"
    THEN [err |-> ErrorElementError(o.text), browser |-> LoginCatch("closed"),
          context |-> "closed"]
    ELSE IF o.urlOk
    THEN [err |-> "", browser |-> "open", context |-> "open"]
    ELSE [err |-> FallbackError, browser |-> LoginCatch("closed"), context |-> "closed"]

-----------------------------------------------------------------------------
(* The three invocation shapes *)

RunFrame == UNCHANGED <<filterVars, portalVars, gtVars, clientVars>>

\* getTransactions(context, start, end) is called
GtCall(start, end) ==
    /\ gtpc' = "start"
    /\ reqStart' = start /\ reqEnd' = end
    /\ startDate' = start /\ endDate' = end
    /\ UNCHANGED <<cards, monthsParsed, monthsToUse, disableBankImported, ci, mj,
                   runningBalance, rendered, results, selected, clicked, filtered, artifact,
                   timeoutsLeft>>

\* server.ts 51-54 and 183-188: a request without username or password is
\* answered 400; otherwise the handler goes on to login.  The CLI prompts
\* until it has both.
RunStart ==
    /\ rpc = "request"
    /\ IF hasCreds
       THEN rpc' = "login" /\ UNCHANGED <<status, resEnded>>
       ELSE rpc' = "done" /\ status' = 400 /\ resEnded' = TRUE
    /\ UNCHANGED <<shape, hasCreds, showBrowser, argStart, argEnd, attempts, lo,
                   loginErr, browser, context, proc, frames, lateWrites,
                   transactionStore, filename>>
    /\ RunFrame

\* await login(username, password, showBrowser)
Login ==
    /\ rpc = "login"
    /\ \E o \in LoginOutcomes :
          /\ lo' = o
          /\ loginErr' = login(o).err
          /\ browser' = login(o).browser
          /\ context' = login(o).context
    /\ attempts' = attempts + 1
    /\ rpc' = "logged"
    /\ UNCHANGED <<shape, hasCreds, showBrowser, argStart, argEnd, proc, status,
                   frames, resEnded, lateWrites, transactionStore, filename>>
    /\ RunFrame

\* login returned the context: getTransactions is called with the window
CallGetTransactions ==
    /\ rpc = "logged"
    /\ loginErr = ""
    /\ rpc' = "scrape"
    /\ GtCall(argStart, argEnd)
    /\ UNCHANGED <<shape, hasCreds, showBrowser, argStart, argEnd, attempts, lo,
                   loginErr, browser, context, proc, status, frames, resEnded,
                   lateWrites, transactionStore, filename>>
    /\ UNCHANGED <<filterVars, portalVars, clientVars>>

\* A mutant: every login error is answered with a new prompt and a retry.
RetryOnAnyError(msg) == msg # ""

\* index.ts 67: the message that makes the CLI ask again
RetryOn(msg) == msg = "InvalidCredentials"

\* index.ts 65-73: InvalidCredentials: ask for the credentials again and retry
CliRetry ==
    /\ shape = "cli"
    /\ rpc = "logged"
    /\ RetryOn(loginErr)
    /\ attempts < MaxAttempts
    /\ rpc' = "login"
    /\ UNCHANGED <<shape, hasCreds, showBrowser, argStart, argEnd, attempts, lo,
                   loginErr, browser, context, proc, status, frames, resEnded,
                   lateWrites, transactionStore, filename>>
    /\ RunFrame

\* index.ts 74-76: any other login error: process.exit(1)
CliLoginError ==
    /\ shape = "cli"
    /\ rpc = "logged"
    /\ loginErr # "" /\ ~RetryOn(loginErr)
    /\ rpc' = "done"
    /\ proc' = "exited"
    /\ UNCHANGED <<shape, hasCreds, showBrowser, argStart, argEnd, attempts, lo,
                   loginErr, browser, context, status, frames, resEnded,
                   lateWrites, transactionStore, filename>>
    /\ RunFrame

\* index.ts 69 with part_000 18-21: the user answers the new prompt with 'q':
\* process.exit(0)
CliQuit ==
    /\ shape = "cli"
    /\ rpc = "logged"
    /\ RetryOn(loginErr)
    /\ rpc' = "done"
    /\ proc' = "exited"
    /\ UNCHANGED <<shape, hasCreds, showBrowser, argStart, argEnd, attempts, lo,
                   loginErr, browser, context, status, frames, resEnded,
                   lateWrites, transactionStore, filename>>
    /\ RunFrame

\* index.ts 84-99: with the browser shown, close it (or the context when
\* that rejects) and let the process end; headless, close the context and
\* process.exit(0).  The browser is a child of the process and goes with it.
CliFinish ==
    /\ shape = "cli"
    /\ rpc = "scrape"
    /\ gtpc = "done"
    /\ context' = "closed"
    /\ browser' = "closed"
    /\ proc' = "exited"
    /\ rpc' = "done"
    /\ UNCHANGED <<shape, hasCreds, showBrowser, argStart, argEnd, attempts, lo,
                   loginErr, status, frames, resEnded, lateWrites, transactionStore, filename>>
    /\ RunFrame

\* index.ts 80: getTransactions rejects inside the async main: the rejection
\* is unhandled and ends the process, and the browser with it
CliCrash ==
    /\ shape = "cli"
    /\ rpc = "scrape"
    /\ gtpc = "threw"
    /\ rpc' = "done"
    /\ proc' = "exited"
    /\ browser' = "closed"
    /\ context' = "closed"
    /\ UNCHANGED <<shape, hasCreds, showBrowser, argStart, argEnd, attempts, lo,
                   loginErr, status, frames, resEnded, lateWrites, transactionStore, filename>>
    /\ RunFrame

\* server.ts 71-78: browser.close(), or context.close() when that rejects
PostClose(b) == "closed"

\* fmtDateForName(d) (server.ts 43-48) and fmt(d) (82-84): the date of the
\* instant in the server's time zone, taken to be Australia/Sydney
fmtDateForName(t) == DateString(SydneyDay(t))

\* the days of new Date(yy, mm - 1, dd) for the transactionDate texts whose
\* three parts give a valid Date (server.ts 89-99); a day past the end of
\* its month rolls over into the next
ParsedDays(transactions) ==
    {FromObject(transactions[i].transactionDate.yyyy, transactions[i].transactionDate.mm,
                Val(transactions[i].transactionDate.dd)) \div TicksPerDay :
        i \in {j \in 1 .. Len(transactions) : transactions[j].transactionDate.dd # NaN}}

\* A mutant: the name is taken from the requested window only.
PostFileNameFromWindow(transactions, sDate, eDate) ==
    "transactions_"
        \o (IF sDate # Null THEN fmtDateForName(Val(sDate)) ELSE "earliest") \o "_"
        \o (IF eDate # Null THEN fmtDateForName(Val(eDate)) ELSE "latest") \o ".json"

\* server.ts 80-108: the filename of the response
PostFileName(transactions, sDate, eDate) ==
    LET parsed == ParsedDays(transactions)
        fromEntries == Len(transactions) > 0 /\ parsed # {}
        startName == IF fromEntries
                     THEN DateString(CHOOSE d \in parsed : \A e \in parsed : d <= e)
                     ELSE IF sDate # Null THEN fmtDateForName(Val(sDate)) ELSE "earliest"
        endName   == IF fromEntries
                     THEN DateString(CHOOSE d \in parsed : \A e \in parsed : d >= e)
                     ELSE IF eDate # Null THEN fmtDateForName(Val(eDate)) ELSE "latest"
    IN  "transactions_" \o startName \o "_" \o endName \o ".json"

\* server.ts 71-116: close the browser, name the file, store and send the array
PostFinish ==
    /\ shape = "post"
    /\ rpc = "scrape"
    /\ gtpc = "done"
    /\ browser' = PostClose(browser)
    /\ context' = "closed"
    /\ transactionStore' = filtered
    /\ filename' = PostFileName(filtered, argStart, argEnd)
    /\ status' = 200
    /\ resEnded' = TRUE
    /\ rpc' = "done"
    /\ UNCHANGED <<shape, hasCreds, showBrowser, argStart, argEnd, attempts, lo,
                   loginErr, proc, frames, lateWrites>>
    /\ RunFrame

\* server.ts 117-125: login or getTransactions threw: 401 for
\* InvalidCredentials, 500 otherwise
PostCatch ==
    /\ shape = "post"
    /\ \/ rpc = "logged" /\ loginErr # ""
       \/ rpc = "scrape" /\ gtpc = "threw"
    /\ status' = IF rpc = "logged" /\ loginErr = "InvalidCredentials" THEN 401 ELSE 500
    /\ resEnded' = TRUE
    /\ rpc' = "done"
    /\ UNCHANGED <<shape, hasCreds, showBrowser, argStart, argEnd, attempts, lo,
                   loginErr, browser, context, proc, frames, lateWrites,
                   transactionStore, filename>>
    /\ RunFrame

\* server.ts 212-221: send the done frame, end the response, close the
\* browser; when browser.close() rejects the catch block writes an error
\* frame to the ended response
StreamFinish ==
    /\ shape = "stream"
    /\ rpc = "scrape"
    /\ gtpc = "done"
    /\ frames' = Append(frames, "done")
    /\ resEnded' = TRUE
    /\ \E closeThrows \in BOOLEAN :
          /\ lateWrites' = IF closeThrows THEN Append(lateWrites, "error") ELSE lateWrites
          /\ browser' = "closed"
          /\ context' = "closed"
    /\ rpc' = "done"
    /\ UNCHANGED <<shape, hasCreds, showBrowser, argStart, argEnd, attempts, lo,
                   loginErr, proc, status, transactionStore, filename>>
    /\ RunFrame

\* server.ts 218-221: login or getTransactions threw: send the error frame
\* and end the response
StreamCatch ==
    /\ shape = "stream"
    /\ \/ rpc = "logged" /\ loginErr # ""
       \/ rpc = "scrape" /\ gtpc = "threw"
    /\ frames' = Append(frames, "error")
    /\ resEnded' = TRUE
    /\ rpc' = "done"
    /\ UNCHANGED <<shape, hasCreds, showBrowser, argStart, argEnd, attempts, lo,
                   loginErr, browser, context, proc, status, lateWrites,
                   transactionStore, filename>>
    /\ RunFrame

\* no run is in progress
RunIdle ==
    /\ shape = "none" /\ rpc = "idle" /\ hasCreds = FALSE /\ showBrowser = FALSE
    /\ argStart = Null /\ argEnd = Null /\ attempts = 0 /\ lo = NoOutcome
    /\ loginErr = "" /\ browser = "none" /\ context = "none" /\ proc = "running"
    /\ status = 0 /\ frames = <<>> /\ resEnded = FALSE /\ lateWrites = <<>>
    /\ transactionStore = <<>> /\ filename = ""

-----------------------------------------------------------------------------
(* The streaming client: Scraper.run and the handlers of its EventSource *)

ClientFrame == UNCHANGED <<filterVars, portalVars, gtVars, runVars>>

\* the form when run() is called: are both credentials filled in, and what
\* the checks of lines 123-157 make of each date field
DateFields == {"empty", "bad", "future", "ok"}
Forms == [creds : BOOLEAN, start : DateFields, end : DateFields]

\* lines 101-157: the message of the check that stops run(), "" when none does
ValidationMessage(form) ==
    IF ~form.creds THEN "Please enter username and password."
    ELSE IF form.start = "bad" THEN "Start date must be in valid format"
    ELSE IF form.start = "future" THEN "Start date cannot be in the future"
    ELSE IF form.end = "bad" THEN "End date must be in valid format"
    ELSE IF form.end = "future" THEN "End date cannot be in the future"
    ELSE ""

\* the frames of the stream the client may be sent
ProgressFrames ==
    {[type |-> "progress", percent |-> Null, message |-> ""],
     [type |-> "progress", percent |-> Some(50), message |-> "Card 1/1"]}
ErrorFrames ==
    {[type |-> "error", message |-> ""], [type |-> "error", message |-> "LoginFailed"]}

\* line 219
ConnectionLost == "Connection lost while receiving progress."

\* this.eventSource?.close(): the object the field holds, if any, is closed
CloseSource(es, n) == IF es = "open" THEN n - 1 ELSE n

\* A mutant: the transport error leaves running as it was.
RunningAfterTransportErrorKept(r) == r

\* lines 218-221: if (this.running) { ...; this.running = false }
RunningAfterTransportError(r) == IF r THEN FALSE ELSE r

\* run(): a check fails and a message is shown (lines 101-157), or the run
\* starts and the stream is opened (158-174).  The page offers run() only
\* while no run is in progress.
ClientRun ==
    /\ ~running
    /\ runs < MaxRuns
    /\ \E form \in Forms :
          IF ValidationMessage(form) # ""
          THEN /\ message' = ValidationMessage(form)
               /\ UNCHANGED <<running, eventSource, sources, progressPercent,
                              progressMessage, received, runs>>
          ELSE /\ running' = TRUE
               /\ progressPercent' = 0
               /\ progressMessage' = "Starting..."
               /\ eventSource' = "open"
               /\ sources' = sources + 1
               /\ received' = <<>>
               /\ runs' = runs + 1
               /\ UNCHANGED message
    /\ ClientFrame

\* onmessage with a progress frame (lines 180-183)
ClientProgress ==
    /\ sources > 0
    /\ Len(received) < MaxEvents
    /\ \E data \in ProgressFrames :
          /\ progressPercent' = (IF data.percent = Null THEN 0 ELSE Val(data.percent))
          /\ progressMessage' = data.message
    /\ received' = Append(received, [event |-> "progress", shown |-> ""])
    /\ UNCHANGED <<running, eventSource, sources, message, runs>>
    /\ ClientFrame

\* onmessage with the done frame (lines 185-200)
ClientDone ==
    /\ sources > 0
    /\ sources' = CloseSource(eventSource, sources)
    /\ eventSource' = "null"
    /\ progressPercent' = 100
    /\ progressMessage' = "Completed"
    /\ message' = "Transactions loaded."
    /\ running' = FALSE
    /\ received' = Append(received, [event |-> "done", shown |-> message'])
    /\ UNCHANGED runs
    /\ ClientFrame

\* onmessage with an error frame (lines 202-208)
ClientError ==
    /\ sources > 0
    /\ \E data \in ErrorFrames :
          message' = (IF data.message = "" THEN "Scraping failed" ELSE data.message)
    /\ sources' = CloseSource(eventSource, sources)
    /\ eventSource' = "null"
    /\ running' = FALSE
    /\ received' = Append(received, [event |-> "error", shown |-> message'])
    /\ UNCHANGED <<progressPercent, progressMessage, runs>>
    /\ ClientFrame

\* onerror: the transport failed (lines 213-224)
ClientTransportError ==
    /\ sources > 0
    /\ sources' = CloseSource(eventSource, sources)
    /\ eventSource' = "null"
    /\ message' = (IF running THEN ConnectionLost ELSE message)
    /\ running' = RunningAfterTransportError(running)
    /\ received' = Append(received, [event |-> "transport",
                                     shown |-> IF running THEN ConnectionLost ELSE ""])
    /\ UNCHANGED <<progressPercent, progressMessage, runs>>
    /\ ClientFrame

\* the timer of showMessage clears the message (lines 305-311)
ClientClearMessage ==
    /\ message # ""
    /\ message' = ""
    /\ UNCHANGED <<running, eventSource, sources, progressPercent, progressMessage,
                   received, runs>>
    /\ ClientFrame

\* the page as constructed (lines 83-97)
ClientIdle ==
    /\ running = FALSE /\ eventSource = "null" /\ sources = 0 /\ message = ""
    /\ progressPercent = 0 /\ progressMessage = "" /\ received = <<>> /\ runs = 0

ClientNext ==
    \/ ClientRun \/ ClientProgress \/ ClientDone \/ ClientError
    \/ ClientTransportError \/ ClientClearMessage

-----------------------------------------------------------------------------
(* The portal *)

Months == 0 .. (NMonths - 1)

\* today is the first day of the last modelled month, and the run happens
\* late on that day: one modelled day lies in the future
Today == (NMonths - 1) * DaysPerMonth
Now == Today * TicksPerDay + (TicksPerDay - 1)

CardName(i) == "Opal " \o ToString(i)
\* the balance shown on the i-th selector item, in cents
ShownBalance(i) == 10000 \div i

\* the i-th selector item, of each kind
ItemOfKind(i, kind) ==
    [text |-> [empty |-> FALSE, linkCard |-> kind = "link", blocked |-> kind = "blocked",
               name |-> IF kind = "link" THEN "Link card" ELSE CardName(i)],
     balance |-> IF kind \in {"nobalance", "link"} THEN Null ELSE Some(ShownBalance(i))]

ItemKinds == {"card", "nobalance", "blocked", "link"}

ItemLists(kinds, n) ==
    UNION {{[i \in 1 .. k |-> ItemOfKind(i, f[i])] : f \in [1 .. k -> kinds]} : k \in 1 .. n}

\* the header of the block of calendar day d
HeaderOfDay(d) ==
    [parts |-> 4, day |-> Some((d % DaysPerMonth) + 1),
     mon |-> MonthNames[MYOfMonth(MonthOfDay(d)).month + 1],
     year |-> MYOfMonth(MonthOfDay(d)).year]

\* line items: a $10.00 fare, a fare written -$5.00, a $20.00 top up
Fare10 == [amount |-> [words |-> "", sign |-> "", num |-> Some(1000)],
           description |-> "Trip fare"]
Fare5 == [amount |-> [words |-> "", sign |-> "-", num |-> Some(500)],
          description |-> "Central to Town Hall"]
TopUp20 == [amount |-> [words |-> "", sign |-> "", num |-> Some(2000)],
            description |-> "Top up"]
LineItems == {Fare10, Fare5, TopUp20}

\* what the portal may render for month k: nothing, or one block dated on
\* the first day of the month with up to MaxItems line items
ContentsOf(k, lineItems) ==
    {<<>>} \cup
    {<<[dateText |-> HeaderOfDay(k * DaysPerMonth), items |-> its]>> :
        its \in UNION {[1 .. n -> lineItems] : n \in 1 .. MaxItems}}

\* the options of the period control: "Last 7 days", then the months of ks
\* in the given order
OptionsOf(ks) ==
    <<[kind |-> "last7", value |-> 0]>> \o [i \in 1 .. Len(ks) |-> [kind |-> "month", value |-> ks[i]]]

\* the ledger of every item: item 1 shows L, item i shows L moved i - 1
\* months back (rotating), so that the cards show different entries
LedgerOf(L, n) ==
    [i \in 1 .. n |-> [k \in Months |->
        LET from == (k + i - 1) % NMonths
        IN  IF L[from] = <<>> THEN <<>>
            ELSE <<[dateText |-> HeaderOfDay(k * DaysPerMonth),
                    items |-> L[from][1].items]>>]]

\* the two most recent months, most recent first, as the portal lists them
RecentMonths == <<NMonths - 1, NMonths - 2>>

FilterIdle ==
    /\ fpc = "idle" /\ fResults = <<>> /\ fStart = Null /\ fEnd = Null
    /\ fOut = <<>> /\ fWide = <<>> /\ fTwice = <<>>

NoPortal ==
    /\ now = Now /\ items = <<>> /\ options = <<>> /\ ledger = <<>>
    /\ timeoutsLeft = 0

-----------------------------------------------------------------------------
(* One run of each shape *)

\* the ledger of the runs: a fare in the current month, a top up and a fare
\* in the month before
RunLedger ==
    [k \in Months |->
        IF k = NMonths - 1
        THEN <<[dateText |-> HeaderOfDay(k * DaysPerMonth), items |-> <<Fare10>>]>>
        ELSE IF k = NMonths - 2
        THEN <<[dateText |-> HeaderOfDay(k * DaysPerMonth), items |-> <<TopUp20, Fare5>>]>>
        ELSE <<>>]

\* the windows of the requests (and of the CLI's input file): none, one that
\* ends late yesterday, one that starts today and ends yesterday, one that
\* ends tomorrow
RunWindows ==
    {<<Null, Null>>,
     <<Null, Some(Today * TicksPerDay - 1)>>,
     <<Some(Today * TicksPerDay), Some(Today * TicksPerDay - 1)>>,
     <<Null, Some((Today + 1) * TicksPerDay)>>}

Init ==
    /\ FilterIdle
    /\ GtIdle
    /\ ClientIdle
    /\ now = Now
    /\ items \in {<<ItemOfKind(1, "card")>>, <<ItemOfKind(1, "blocked"), ItemOfKind(2, "card")>>}
    /\ options = OptionsOf(RecentMonths)
    /\ \E L \in {RunLedger, [k \in Months |-> <<>>]} : ledger = LedgerOf(L, Len(items))
    /\ timeoutsLeft \in 0 .. MaxTimeouts
    /\ shape \in {"cli", "post", "stream"}
    /\ rpc = "request"
    /\ hasCreds \in BOOLEAN
    /\ shape = "cli" => hasCreds
    /\ showBrowser \in BOOLEAN
    /\ \E w \in RunWindows : argStart = w[1] /\ argEnd = w[2]
    /\ attempts = 0 /\ lo = NoOutcome /\ loginErr = ""
    /\ browser = "none" /\ context = "none" /\ proc = "running"
    /\ status = 0 /\ frames = <<>> /\ resEnded = FALSE /\ lateWrites = <<>>
    /\ transactionStore = <<>> /\ filename = ""

Next ==
    \/ RunStart \/ Login \/ CallGetTransactions
    \/ CliRetry \/ CliQuit \/ CliLoginError \/ CliFinish \/ CliCrash
    \/ PostFinish \/ PostCatch
    \/ StreamFinish \/ StreamCatch
    \/ GtDiscover \/ GtSkipBlocked \/ GtClickCard \/ GtSelectMonth
    \/ GtSelectMonthTimeout \/ GtLoopEnd \/ GtFilter \/ GtThrow

Spec == Init /\ [][Next]_vars

-----------------------------------------------------------------------------
(* getTransactions called on a portal: balances *)

\* end dates: none, late yesterday, today at midnight, the instant of the run
ExtractEnds == {Null, Some(Today * TicksPerDay - 1), Some(Today * TicksPerDay), Some(Now)}

\* ledgers with entries in the two most recent months only: line items of
\* `recent` in the last month, of `older` in the month before
RecentLedgers(recent, older) ==
    {[k \in Months |-> IF k = NMonths - 1 THEN a ELSE IF k = NMonths - 2 THEN b ELSE <<>>] :
        a \in ContentsOf(NMonths - 1, recent), b \in ContentsOf(NMonths - 2, older)}

\* the first or the last instant of any modelled day, or no date
EdgeInstants ==
    {Null} \cup {Some(t) : t \in {u \in Instants : u = StartOfDay(u) \/ u = EndOfDay(u)}}

\* every month shows a fare on its last day (on today in the current month,
\* the portal showing nothing dated after today) and, below it, a top up on
\* its first day
FullLedger ==
    [k \in Months |->
        LET last == k * DaysPerMonth + DaysPerMonth - 1
        IN  <<[dateText |-> HeaderOfDay(IF last > Today THEN Today ELSE last),
               items |-> <<Fare10>>],
              [dateText |-> HeaderOfDay(k * DaysPerMonth), items |-> <<TopUp20>>]>>]

\* the months of the period control: any months, each once, in any order
OptionOrders == {ks \in SeqsUpTo(Months, NMonths) : \A i, j \in 1 .. Len(ks) : i # j => ks[i] # ks[j]}

\* Cards that show their balance, any entries in the last month and fares
\* in the month before.
BalancesInit ==
    /\ items \in ItemLists({"card"}, MaxCards)
    /\ options = OptionsOf(RecentMonths)
    /\ \E L \in RecentLedgers(LineItems, {Fare5}) : ledger = LedgerOf(L, Len(items))
    /\ timeoutsLeft \in 0 .. MaxTimeouts
    /\ \E e \in {Null, Some(Today * TicksPerDay - 1)} : GtCalled(Null, e)

\* Selector items of every kind, fares only.
CardsInit ==
    /\ items \in ItemLists(ItemKinds, MaxCards)
    /\ options = OptionsOf(RecentMonths)
    /\ \E L \in RecentLedgers({Fare10}, {Fare10}) : ledger = LedgerOf(L, Len(items))
    /\ timeoutsLeft \in 0 .. MaxTimeouts
    /\ \E e \in ExtractEnds : GtCalled(Null, e)

\* One card, any period control, any window.
WindowInit ==
    /\ items = <<ItemOfKind(1, "card")>>
    /\ \E ks \in OptionOrders : options = OptionsOf(ks)
    /\ ledger = <<FullLedger>>
    /\ timeoutsLeft = 0
    /\ \E s \in EdgeInstants, e \in EdgeInstants : GtCalled(s, e)

\* the headers a block dated d may carry: the date, a day that is not a
\* number, a word that is no month name, fewer than four parts
HeadersOfDay(d) ==
    {HeaderOfDay(d), [HeaderOfDay(d) EXCEPT !.day = NaN],
     [HeaderOfDay(d) EXCEPT !.mon = "Today"], [HeaderOfDay(d) EXCEPT !.parts = 3]}

\* One card, up to two blocks of today with any headers, fares in the month
\* before, no window or a window that ends now.
HeadersInit ==
    /\ items = <<ItemOfKind(1, "card")>>
    /\ options = OptionsOf(RecentMonths)
    /\ \E hs \in SeqsUpTo(HeadersOfDay(Today), 2), older \in ContentsOf(NMonths - 2, {Fare5}) :
          ledger = <<[k \in Months |->
                        IF k = NMonths - 1
                        THEN [i \in 1 .. Len(hs) |-> [dateText |-> hs[i], items |-> <<Fare10>>]]
                        ELSE IF k = NMonths - 2 THEN older ELSE <<>>]>>
    /\ timeoutsLeft = 0
    /\ \E e \in {Null, Some(Now)} : GtCalled(Null, e)

\* line items of every form: with or without top-up words in the amount
\* text, any written sign, an amount that is missing, zero, 4.80 or 20.00,
\* and a description that is a fare, a top up or a stop whose name holds "top"
AmountItems ==
    [amount : [words : {"", "Top up"}, sign : {"", "+", "-"},
               num : {NaN, Some(0), Some(480), Some(2000)}],
     description : {"Trip fare", "Auto top-up", "Elizabeth St Stop"}]

\* One card whose balance may be unreadable, one block of today holding one
\* line item of any form, a fare in the month before.
AmountsInit ==
    /\ items \in {<<ItemOfKind(1, "card")>>, <<ItemOfKind(1, "nobalance")>>}
    /\ options = OptionsOf(RecentMonths)
    /\ \E it \in AmountItems :
          ledger = <<[k \in Months |->
                        IF k = NMonths - 1
                        THEN <<[dateText |-> HeaderOfDay(Today), items |-> <<it>>]>>
                        ELSE IF k = NMonths - 2
                        THEN <<[dateText |-> HeaderOfDay(k * DaysPerMonth), items |-> <<Fare5>>]>>
                        ELSE <<>>]>>
    /\ timeoutsLeft = 0
    /\ \E e \in {Null, Some(Today * TicksPerDay - 1)} : GtCalled(Null, e)

ExtractInit ==
    /\ FilterIdle
    /\ RunIdle
    /\ ClientIdle
    /\ now = Now
    /\ BalancesInit \/ CardsInit \/ WindowInit \/ HeadersInit \/ AmountsInit

SpecExtract == ExtractInit /\ [][GtNext]_vars

-----------------------------------------------------------------------------
(* The filter applied to chosen inputs *)

\* date texts an entry can carry: every modelled day, a header whose day did
\* not parse, and a day past the end of its month
FilterDateTexts ==
    {DateTextOfDay(d) : d \in Days}
        \cup {DateText(Epoch.month + 1, NaN, Epoch.year),
              DateText(Epoch.month + 1, Some(DaysPerMonth + 1), Epoch.year)}

FilterEntries ==
    [transactionDate : FilterDateTexts, quantity : {-480}]
        \cup [transactionDate : {DateTextOfDay(0)}, quantity : {2000}]

\* bounds handed to the filter: any instant of the last day of one year and of
\* the first day of the next (the entries range over every modelled day)
FilterBoundDays == {d \in Days : MYOfMonth(MonthOfDay(d)).year # MYOfMonth(MonthOfDay(d + 1)).year
                              \/ MYOfMonth(MonthOfDay(d)).year # MYOfMonth(MonthOfDay(d - 1)).year}
FilterBounds == {Null} \cup {Some(t) : t \in {u \in Instants : SydneyDay(u) \in FilterBoundDays}}

FilterInit ==
    /\ NoPortal
    /\ RunIdle
    /\ GtIdle
    /\ ClientIdle
    /\ fpc = "in"
    /\ fResults \in SeqsUpTo(FilterEntries, MaxLen)
    /\ fStart \in FilterBounds
    /\ fEnd \in FilterBounds
    /\ fOut = <<>>
    /\ fWide = <<>>
    /\ fTwice = <<>>

\* const filtered = filterByDateRange(results, startDate, endDate)
FilterApply ==
    /\ fpc = "in"
    /\ fOut' = filterByDateRange(fResults, fStart, fEnd)
    /\ fpc' = "out"
    /\ UNCHANGED <<fResults, fStart, fEnd, fWide, fTwice>>
    /\ UNCHANGED <<portalVars, gtVars, runVars, clientVars>>

\* the same list filtered with the end bound one day later
FilterWiden ==
    /\ fpc = "out"
    /\ fEnd # Null
    /\ fWide' = filterByDateRange(fResults, fStart, Some(Val(fEnd) + TicksPerDay))
    /\ fpc' = "wide"
    /\ UNCHANGED <<fResults, fStart, fEnd, fOut, fTwice>>
    /\ UNCHANGED <<portalVars, gtVars, runVars, clientVars>>

\* the filter's own output filtered again with the same bounds
FilterAgain ==
    /\ fpc = "out"
    /\ fTwice' = filterByDateRange(fOut, fStart, fEnd)
    /\ fpc' = "again"
    /\ UNCHANGED <<fResults, fStart, fEnd, fOut, fWide>>
    /\ UNCHANGED <<portalVars, gtVars, runVars, clientVars>>

FilterNext == FilterApply \/ FilterWiden \/ FilterAgain

SpecFilter == FilterInit /\ [][FilterNext]_vars

-----------------------------------------------------------------------------
(* The streaming client on its own *)

ClientInit ==
    /\ FilterIdle
    /\ NoPortal
    /\ GtIdle
    /\ RunIdle
    /\ ClientIdle

SpecClient == ClientInit /\ [][ClientNext]_vars

-----------------------------------------------------------------------------
(* Claims about filterByDateRange *)

\* the calendar day named by a date text, counted from the first modelled day
CalendarDay(txd) ==
    MonthsSinceEpoch([month |-> txd.mm - 1, year |-> txd.yyyy]) * DaysPerMonth
        + Val(txd.dd) - 1
\* the date text names a calendar date
IsCalendarDate(txd) ==
    txd.dd # NaN /\ Val(txd.dd) >= 1 /\ Val(txd.dd) <= DaysPerMonth
\* the four-case rule, on calendar days
InWindow(tx, s, e) ==
    \/ s = Null /\ e = Null
    \/ /\ IsCalendarDate(tx.transactionDate)
       /\ s # Null => SydneyDay(Val(s)) <= CalendarDay(tx.transactionDate)
       /\ e # Null => CalendarDay(tx.transactionDate) <= SydneyDay(Val(e))

RECURSIVE IsSubSeq(_, _)
\* a is b with some elements left out
IsSubSeq(a, b) ==
    IF a = <<>> THEN TRUE
    ELSE IF b = <<>> THEN FALSE
    ELSE IF Head(a) = Head(b) THEN IsSubSeq(Tail(a), Tail(b))
    ELSE IsSubSeq(a, Tail(b))

\* C8: filterByDateRange returns exactly the entries, in their original
\* order, whose calendar date satisfies the four-case rule (no condition
\* without bounds, d <= end, d >= start, start <= d <= end), compared by
\* Sydney calendar day, so entries dated on the start or end day are kept.
C8_FilterFourCases ==
    fpc # "in" =>
        fOut = SelectSeq(fResults, LAMBDA tx : InWindow(tx, fStart, fEnd))

\* C8 witness: both bounds present with a time of day after midnight on the
\* start day; an entry dated on the start day and one on the end day are
\* kept and another entry is dropped.
C8_Witness ==
    /\ fpc = "out"
    /\ fStart # Null /\ fEnd # Null
    /\ Val(fStart) > StartOfDay(Val(fStart))
    /\ Len(fOut) >= 1 /\ Len(fOut) < Len(fResults)
    /\ \E i \in 1 .. Len(fOut) :
          CalendarDay(fOut[i].transactionDate) = SydneyDay(Val(fStart))

\* C9: filter(E, null, null) = E; filter(E, null, e) is contained in
\* filter(E, null, e + 1 day); filtering the filter's output again with the
\* same bounds changes nothing.
C9_FilterLaws ==
    /\ (fpc # "in" /\ fStart = Null /\ fEnd = Null) => fOut = fResults
    /\ (fpc = "wide" /\ fStart = Null) => IsSubSeq(fOut, fWide)
    /\ fpc = "again" => fTwice = fOut

\* C9 witness: without a start bound the widened end admits an entry the
\* original end left out.
C9_Witness ==
    /\ fpc = "wide" /\ fStart = Null
    /\ Len(fOut) >= 1 /\ Len(fWide) > Len(fOut)

-----------------------------------------------------------------------------
(* Claims about login and the runs *)

\* the last call of login got as far as the race of the two waits
RaceReached == rpc = "logged" /\ lo.launch = "ok" /\ lo.setup = "ok"

\* C1: in every invocation shape, once login has returned an authenticated
\* context, the browser is closed when the run ends, whether getTransactions
\* returned or threw.
C1_BrowserClosedOnEveryExit ==
    (rpc = "done" /\ attempts > 0 /\ loginErr = "") => browser = "closed"

\* C2: whenever login fails after the browser was launched, the browser (and
\* its context) is closed when the error reaches the caller.
C2_FailedLoginClosesBrowser ==
    (rpc = "logged" /\ loginErr # "") => (browser # "open" /\ context # "open")

\* C2 witness: the login frame was missing after the browser was launched; the
\* caller holds the error and the browser is closed.
C2_Witness ==
    /\ rpc = "logged" /\ lo.launch = "ok" /\ lo.setup = "noframe"
    /\ loginErr = "Could not find Opal login frame"
    /\ browser = "closed"

\* C3: when the error element appears, login fails with InvalidCredentials
\* only if its text matches one of the credential keywords, and with
\* LoginFailed for any other text, the empty text included.
C3_ErrorTextClassified ==
    (RaceReached /\ lo.race = "error") =>
        loginErr = (IF MatchesCredentialWords(LowerOf(lo.text))
                    THEN "InvalidCredentials" ELSE "LoginFailed")

\* neither wait succeeded and the fallback check of the URL failed
FallbackFailed ==
    RaceReached /\ lo.race \in {"no-success", "no-error"} /\ ~lo.urlOk

\* C4 as stated: when neither wait succeeds and the fallback URL check fails,
\* login fails with LoginTimeout.
C4_FallbackFailureIsLoginTimeout == FallbackFailed => loginErr = "LoginTimeout"

\* C4 amended: when neither wait succeeds and the fallback URL check fails,
\* login fails with LoginFailed.
C4_FallbackFailureIsLoginFailed == FallbackFailed => loginErr = "LoginFailed"

\* C4 witness: the success wait gave up, the URL was not the account page.
C4_Witness ==
    FallbackFailed /\ lo.race = "no-success" /\ loginErr = "LoginFailed" /\ browser = "closed"

-----------------------------------------------------------------------------
(* Claims about getTransactions *)

\* the entries pushed for the account named a, in extraction order
EntriesOf(a) == SelectSeq(results, LAMBDA tx : tx.accountId = a)

RECURSIVE SumQuantity(_, _)
\* the sum of the signed amounts of the first n entries of s
SumQuantity(s, n) == IF n = 0 THEN 0 ELSE s[n].quantity + SumQuantity(s, n - 1)

\* the balance the portal displays on the item of card c
DisplayedBalance(c) == items[c.element].balance

\* C5: for each non-blocked account whose displayed balance B is readable,
\* with the suppression flag clear, the k-th entry extracted for the account
\* is stamped with B minus the sum of the signed amounts of the k-1 entries
\* extracted before it, formatted to 2 decimals.
C5_StampIsBalanceMinusEarlier ==
    \A i \in 1 .. Len(cards) :
        (~cards[i].blocked /\ DisplayedBalance(cards[i]) # Null /\ ~disableBankImported) =>
            LET es == EntriesOf(cards[i].name)
            IN  \A k \in 1 .. Len(es) :
                    es[k].bankImportedBalance =
                        Some(toFixed2(Val(DisplayedBalance(cards[i])) - SumQuantity(es, k - 1)))

\* C5 witness: a finished run with the flag clear in which the first account
\* has three entries, a top up among the first two, and the second account
\* has an entry too.
C5_Witness ==
    /\ gtpc = "done" /\ ~disableBankImported
    /\ Len(cards) >= 2
    /\ Len(EntriesOf(cards[1].name)) >= 3
    /\ \E k \in 1 .. 2 : EntriesOf(cards[1].name)[k].quantity > 0
    /\ Len(EntriesOf(cards[2].name)) >= 1
    /\ EntriesOf(cards[1].name)[3].bankImportedBalance # Null

\* the first account shows 100.00 and its first two entries are charges of
\* 10.00 and then 5.00, the flag being clear
TwoCharges ==
    /\ Len(cards) >= 1 /\ ~cards[1].blocked /\ ~disableBankImported
    /\ DisplayedBalance(cards[1]) = Some(10000)
    /\ Len(EntriesOf(cards[1].name)) >= 2
    /\ EntriesOf(cards[1].name)[1].quantity = 0 - 1000
    /\ EntriesOf(cards[1].name)[2].quantity = 0 - 500

\* C6 as stated: with B = 100.00 and charges a1 = -10.00 then a2 = -5.00 the
\* stamps are "100.00" and B + a1 = "90.00".
C6_SecondStampIsNinety ==
    TwoCharges =>
        /\ EntriesOf(cards[1].name)[1].bankImportedBalance = Some("100.00")
        /\ EntriesOf(cards[1].name)[2].bankImportedBalance = Some("90.00")

\* C6 amended: the first entry's stamp is B and the second's is B - a1; with
\* B = 100.00, a1 = -10.00, a2 = -5.00 the stamps are "100.00" and "110.00".
C6_SecondStampIsOneTen ==
    TwoCharges =>
        /\ EntriesOf(cards[1].name)[1].bankImportedBalance = Some("100.00")
        /\ EntriesOf(cards[1].name)[2].bankImportedBalance = Some("110.00")

\* C6 witness: the two charges were extracted and stamped.
C6_Witness ==
    TwoCharges /\ gtpc = "done" /\ EntriesOf(cards[1].name)[2].bankImportedBalance # Null

\* the end of the window: the caller's, or today when absent
WindowEndDay == IF reqEnd = Null THEN SydneyDay(now) ELSE SydneyDay(Val(reqEnd))

\* C7: if the end date of the window (given, or today when absent) falls on
\* a Sydney calendar day strictly before today, every entry produced by the
\* run has bankImportedBalance = null.
C7_SuppressedWhenEndBeforeToday ==
    WindowEndDay < SydneyDay(now) =>
        /\ \A k \in 1 .. Len(results) : results[k].bankImportedBalance = Null
        /\ \A k \in 1 .. Len(filtered) : filtered[k].bankImportedBalance = Null

\* C7 witness: the window ends yesterday, the account shows its balance, and
\* the run returns entries.
C7_Witness ==
    /\ gtpc = "done" /\ reqEnd # Null /\ WindowEndDay = SydneyDay(now) - 1
    /\ Len(filtered) >= 1
    /\ \E i \in 1 .. Len(cards) :
          ~cards[i].blocked /\ DisplayedBalance(cards[i]) # Null
              /\ Len(EntriesOf(cards[i].name)) >= 1

\* the months (since Epoch) the period control offers
Discovered == {options[i].value : i \in {j \in 1 .. Len(options) : options[j].kind = "month"}}

\* the earliest discovered month
EarliestMonth == CHOOSE k \in Discovered : \A l \in Discovered : k <= l

\* the month of the effective start: the caller's start, or the earliest
\* discovered period when the start is absent or before it
WindowStartMonth ==
    IF reqStart = Null \/ MonthOfDay(SydneyDay(Val(reqStart))) < EarliestMonth
    THEN EarliestMonth ELSE MonthOfDay(SydneyDay(Val(reqStart)))

\* the discovered months within the window
InRange ==
    {k \in Discovered : WindowStartMonth <= k /\ k <= MonthOfDay(WindowEndDay)}

\* the periods selected on the portal for the account named a
SelectedFor(a) == {selected[i].value : i \in {j \in 1 .. Len(selected) : selected[j].accountId = a}}

\* C10 as stated: the periods iterated are the discovered periods within the
\* window, or every discovered period when none lies within it.
C10_InRangeElseAll ==
    gtpc = "done" =>
        \A i \in 1 .. Len(cards) :
            ~cards[i].blocked =>
                SelectedFor(cards[i].name) = (IF InRange = {} THEN Discovered ELSE InRange)

\* C10 amended: the periods iterated are exactly the discovered periods whose
\* (year, month) lies in the inclusive range from the effective start's to
\* the effective end's; when none does, no period is iterated.
C10_InRangeOnly ==
    gtpc = "done" =>
        \A i \in 1 .. Len(cards) :
            ~cards[i].blocked => SelectedFor(cards[i].name) = InRange

\* C10 witness: a finished run whose window, given on both sides, holds some
\* but not all of the discovered periods, the end month among them.
C10_Witness ==
    /\ gtpc = "done" /\ reqStart # Null /\ reqEnd # Null
    /\ Len(cards) >= 1 /\ ~cards[1].blocked
    /\ InRange # {} /\ InRange # Discovered
    /\ MonthOfDay(WindowEndDay) \in InRange
    /\ SelectedFor(cards[1].name) = InRange

\* the window was settled and the periods were chosen
AfterDiscover == gtpc \in {"card", "month", "filter", "done"}

\* the first day of the earliest discovered period
FirstDayOfEarliest == EarliestMonth * DaysPerMonth

\* the caller's start lies before the first day of the earliest period
StartBeforeEarliest ==
    Discovered # {} /\ reqStart # Null /\ SydneyDay(Val(reqStart)) < FirstDayOfEarliest

\* C11: a caller start before the first day of the earliest discovered period
\* is replaced by that first day, a caller start on or after it is used
\* unchanged; the effective start is the one the period selection and the
\* date filter use.  (Earliest period December 2023, caller start in November
\* 2023: the effective start month is December 2023.)
C11_StartClamped ==
    (AfterDiscover /\ Discovered # {} /\ reqStart # Null) =>
        LET effective == IF StartBeforeEarliest
                         THEN Some(FirstDayOfEarliest * TicksPerDay) ELSE reqStart
        IN  /\ startDate = effective
            /\ \A i \in 1 .. Len(selected) :
                  selected[i].value >= MonthOfDay(SydneyDay(Val(effective)))
            /\ gtpc = "done" =>
                  filtered = SelectSeq(results, LAMBDA tx :
                      /\ IsCalendarDate(tx.transactionDate)
                      /\ SydneyDay(Val(effective)) <= CalendarDay(tx.transactionDate)
                      /\ CalendarDay(tx.transactionDate) <= WindowEndDay)

\* C11 witness: the earliest period is December 2023, the caller's start lies
\* in November 2023, and the finished run used 1 December 2023 and returned
\* entries.
C11_Witness ==
    /\ gtpc = "done" /\ StartBeforeEarliest
    /\ MYOfMonth(EarliestMonth) = [month |-> 11, year |-> 2023]
    /\ MYOf(Val(reqStart)) = [month |-> 10, year |-> 2023]
    /\ startDate = Some(FromObject(2023, 12, 1))
    /\ Len(selected) >= 1 /\ Len(filtered) >= 1

\* C12: for every account the periods are selected in strictly descending
\* (year, month) order, whatever the window and the order of the options;
\* no period is selected twice for the same account.
C12_PeriodsDescending ==
    \A i, j \in 1 .. Len(selected) :
        (i < j /\ selected[i].accountId = selected[j].accountId) =>
            selected[i].value > selected[j].value

\* C12 witness: the portal lists three periods oldest first and the finished
\* run selected all three.
C12_Witness ==
    /\ gtpc = "done" /\ Len(options) = 4 /\ Len(selected) = 3
    /\ options[2].value < options[3].value /\ options[3].value < options[4].value

\* the name appears as accountId of a selection or of an entry
NameUsed(name) ==
    \/ \E k \in 1 .. Len(selected) : selected[k].accountId = name
    \/ \E k \in 1 .. Len(results) : results[k].accountId = name
    \/ \E k \in 1 .. Len(filtered) : filtered[k].accountId = name

\* the selector item i was clicked
Clicked(i) == \E k \in 1 .. Len(clicked) : clicked[k] = i

\* C13: an item whose text contains "blocked" is never clicked, no period is
\* selected for it and no entry carries its name; the "link card" item is
\* never an account.
C13_BlockedNeverExtracted ==
    \A i \in 1 .. Len(items) :
        /\ items[i].text.blocked => (~Clicked(i) /\ ~NameUsed(items[i].text.name))
        /\ items[i].text.linkCard =>
              /\ ~Clicked(i) /\ ~NameUsed(items[i].text.name)
              /\ \A c \in 1 .. Len(cards) : cards[c].element # i

\* C13 witness: a blocked card listed before a card in use; the finished run
\* clicked only the second and returned its entries.
C13_Witness ==
    /\ gtpc = "done" /\ Len(items) = 2
    /\ items[1].text.blocked /\ ~items[2].text.blocked /\ ~items[2].text.linkCard
    /\ clicked = <<2>>
    /\ Len(filtered) >= 1
    /\ \A k \in 1 .. Len(filtered) : filtered[k].accountId = items[2].text.name

\* the selector item that carries the account name
ItemNamed(name) == CHOOSE i \in 1 .. Len(items) : items[i].text.name = name

\* what the portal shows for the k-th selection once its response arrived
ShownFor(k) == ledger[ItemNamed(selected[k].accountId)][selected[k].value]

RECURSIVE LineItemCount(_)
\* the line items under the block headers that read as a date
LineItemCount(blocks) ==
    IF blocks = <<>> THEN 0
    ELSE (IF Head(blocks).dateText.parts >= 4
              /\ \E i \in 1 .. MonthsPerYear : MonthNames[i] = Head(blocks).dateText.mon
          THEN Len(Head(blocks).items) ELSE 0) + LineItemCount(Tail(blocks))

RECURSIVE ShownCount(_)
\* the line items the portal showed for the first n selections
ShownCount(n) == IF n = 0 THEN 0 ELSE LineItemCount(ShownFor(n)) + ShownCount(n - 1)

\* the response of every selection made so far arrived
AllArrived == \A k \in 1 .. Len(selected) : selected[k].arrived

\* a period was selected and the page shows no activity region for it
AbsentRegionStep ==
    /\ gtpc = "month" /\ Len(selected') = Len(selected) + 1
    /\ rendered' = NoActivity

\* C14: a pair whose activity region is absent adds no entry and leaves the
\* running balance alone, the loop goes on to the next period or the next
\* account without failing, and the entries of all other pairs are recorded.
C14_AbsentRegionSkipped ==
    /\ [](AllArrived => Len(results) = ShownCount(Len(selected)))
    /\ [][AbsentRegionStep =>
            /\ results' = results
            /\ runningBalance' = runningBalance
            /\ \/ gtpc' = "month" /\ ci' = ci /\ mj' = mj + 1
               \/ gtpc' = "card" /\ ci' = ci + 1 /\ mj = Len(monthsToUse)]_vars

\* C14 witness: the most recent period of the first account has no activity
\* region, the period before it has entries, and the finished run returned
\* them with the balance the account displays.
C14_Witness ==
    /\ gtpc = "done" /\ AllArrived /\ Len(selected) >= 2
    /\ ShownFor(1) = NoActivity /\ LineItemCount(ShownFor(2)) >= 1
    /\ selected[1].accountId = selected[2].accountId
    /\ Len(filtered) >= 1
    /\ filtered[1].bankImportedBalance =
          Some(toFixed2(Val(items[ItemNamed(selected[1].accountId)].balance)))

RECURSIVE ArrivedCount(_)
\* the line items the portal showed for those of the first n selections
\* whose response arrived
ArrivedCount(n) ==
    IF n = 0 THEN 0
    ELSE (IF selected[n].arrived THEN LineItemCount(ShownFor(n)) ELSE 0) + ArrivedCount(n - 1)

\* C15: a period whose activity response timed out or failed contributes no
\* entry, so the entries recorded are those of the periods whose response
\* arrived: what is still rendered from the period selected before is not
\* recorded again.
C15_TimeoutRecordsNothing ==
    Len(results) = ArrivedCount(Len(selected))

-----------------------------------------------------------------------------
(* Claims about the stream, the progress callback and the window of a run *)

\* the frame ends the stream
IsTerminal(f) == f \in {"done", "error"}

\* C16: on GET /api/scrape/stream with credentials the producer writes
\* progress frames, then exactly one terminal frame, then ends the response;
\* nothing is written after the terminal frame or after the end, also when
\* closing the browser fails after the done frame.
C16_OneTerminalFrame ==
    (shape = "stream" /\ hasCreds) =>
        /\ lateWrites = <<>>
        /\ \A i \in 1 .. Len(frames) : IsTerminal(frames[i]) => i = Len(frames)
        /\ resEnded => (Len(frames) >= 1 /\ IsTerminal(frames[Len(frames)]))
        /\ ~resEnded => \A i \in 1 .. Len(frames) : ~IsTerminal(frames[i])

\* C17: the progress callback is invoked once for each (non-blocked account,
\* period) pair processed, after the pair's extraction and in the order of
\* the iteration: on the stream, where the callback writes a progress frame,
\* there is one progress frame for every pair processed so far.
C17_ProgressPerPair ==
    shape = "stream" =>
        Cardinality({i \in 1 .. Len(frames) : frames[i] = "progress"}) = Len(selected)

\* a bound of the window lies after today, or the start lies after the end
BadWindow ==
    \/ argStart # Null /\ SydneyDay(Val(argStart)) > SydneyDay(now)
    \/ argEnd # Null /\ SydneyDay(Val(argEnd)) > SydneyDay(now)
    \/ argStart # Null /\ argEnd # Null /\ Val(argStart) > Val(argEnd)

\* C18: in every shape a window with a bound after today or with
\* start > end is rejected before login is called: no browser is launched
\* and no extraction happens.
C18_BadWindowRejected ==
    BadWindow => (attempts = 0 /\ browser = "none" /\ gtpc = "idle")

\* one step of a CLI run
CliStep ==
    /\ (rpc = "logged" /\ rpc' = "login") => loginErr = "InvalidCredentials"
    /\ (rpc = "logged" /\ loginErr = "InvalidCredentials") =>
          \/ rpc' = "login" /\ attempts' = attempts
          \/ rpc' = "done" /\ proc' = "exited" /\ gtpc' = "idle"
    /\ rpc = "login" => (rpc' = "logged" /\ attempts' = attempts + 1)
    /\ (rpc = "logged" /\ loginErr \notin {"", "InvalidCredentials"}) =>
          (rpc' = "done" /\ proc' = "exited" /\ gtpc' = "idle")
    /\ rpc = "done" => (attempts' = attempts /\ gtpc' = gtpc)
    /\ (gtpc = "idle" /\ gtpc' # "idle") =>
          (rpc = "logged" /\ loginErr = "" /\ attempts >= 1 /\ gtpc' = "start")
    /\ (rpc = "logged" /\ loginErr = "") => gtpc' = "start"
    /\ gtpc # "idle" => (gtpc' # "idle" /\ (gtpc' = "start" => gtpc = "start"))
    /\ gtpc # "idle" => attempts' = attempts

\* C19: in the CLI run login is called again (after the new prompt, which
\* the user may leave with 'q') if and only if the attempt before failed
\* with InvalidCredentials; any other login failure ends the run with no
\* further attempt; getTransactions is called only after a login attempt
\* succeeded, and once.
C19_CliRetryOnlyOnInvalidCredentials ==
    [][shape = "cli" => CliStep]_vars

\* C19 witness: a CLI run whose first login failed, whose second login
\* succeeded and whose extraction finished.
C19_Witness ==
    /\ shape = "cli" /\ rpc = "done" /\ attempts = 2 /\ loginErr = ""
    /\ gtpc = "done" /\ proc = "exited"

\* C20: when the caller supplies neither bound the date filter removes
\* nothing: getTransactions returns every extracted entry, unchanged and in
\* extraction order.
C20_NoBoundsReturnsAll ==
    (gtpc = "done" /\ reqStart = Null /\ reqEnd = Null) => filtered = results

-----------------------------------------------------------------------------
(* Claims about the entries *)

RECURSIVE DatedItems(_)
\* the line items under the block headers that read as a date, in page order
DatedItems(blocks) ==
    IF blocks = <<>> THEN <<>>
    ELSE (IF LineItemCount(<<Head(blocks)>>) > 0 THEN Head(blocks).items ELSE <<>>)
            \o DatedItems(Tail(blocks))

RECURSIVE ShownItems(_)
\* the line items the portal showed for the first n selections, in order
ShownItems(n) == IF n = 0 THEN <<>> ELSE ShownItems(n - 1) \o DatedItems(ShownFor(n))

\* the number written in the amount text, 0 when there is none
Magnitude(item) == IF item.amount.num = NaN THEN 0 ELSE Val(item.amount.num)

\* the amount text or the description holds a top-up keyword
IsTopUp(item) == item.amount.words \in TopUpTexts \/ item.description \in TopUpTexts

\* C21 as stated: a top-up entry has quantity >= 0 equal to the magnitude,
\* every other entry has quantity < 0 equal to minus the magnitude, whatever
\* sign the amount text carries; an unparsable amount has magnitude 0.
C21_ChargeStrictlyNegative ==
    AllArrived =>
        \A k \in 1 .. Len(results) :
            LET item == ShownItems(Len(selected))[k]
            IN  IF IsTopUp(item)
                THEN results[k].quantity >= 0 /\ results[k].quantity = Magnitude(item)
                ELSE results[k].quantity < 0 /\ results[k].quantity = 0 - Magnitude(item)

\* C21 amended: a top-up entry has quantity >= 0 equal to the magnitude,
\* every other entry has quantity <= 0 equal to minus the magnitude (zero
\* when the magnitude is zero), whatever sign the amount text carries; an
\* unparsable amount has magnitude 0.
C21_SignFromClassification ==
    AllArrived =>
        \A k \in 1 .. Len(results) :
            LET item == ShownItems(Len(selected))[k]
            IN  IF IsTopUp(item)
                THEN results[k].quantity >= 0 /\ results[k].quantity = Magnitude(item)
                ELSE results[k].quantity <= 0 /\ results[k].quantity = 0 - Magnitude(item)

\* C21 witness: a top up written with a minus sign is extracted as +20.00,
\* followed by a fare written -$5.00 extracted as -5.00.
C21_Witness ==
    /\ gtpc = "done" /\ AllArrived /\ Len(selected) = 2 /\ Len(results) = 2
    /\ IsTopUp(ShownItems(2)[1]) /\ ShownItems(2)[1].amount.sign = "-"
    /\ results[1].quantity = 2000
    /\ ~IsTopUp(ShownItems(2)[2]) /\ results[2].quantity = 0 - 500

\* C22: every entry has status 'pending' if and only if its signed amount is
\* zero, an unparsable amount counting as zero whether it is classified as a
\* charge or as a top up, and 'posted' otherwise.
C22_PendingIffZero ==
    /\ \A k \in 1 .. Len(results) :
          /\ results[k].status \in {"pending", "posted"}
          /\ results[k].status = "pending" <=> results[k].quantity = 0
    /\ \A k \in 1 .. Len(filtered) :
          filtered[k].status = "pending" <=> filtered[k].quantity = 0
    /\ AllArrived =>
          \A k \in 1 .. Len(results) :
              results[k].status = "pending" <=> Magnitude(ShownItems(Len(selected))[k]) = 0

\* C22 witness: a top up without a readable amount is returned as pending
\* and the 5.00 fare after it as posted.
C22_Witness ==
    /\ gtpc = "done" /\ AllArrived /\ Len(selected) = 2 /\ Len(filtered) = 2
    /\ IsTopUp(ShownItems(2)[1]) /\ ShownItems(2)[1].amount.num = NaN
    /\ filtered[1].status = "pending" /\ filtered[1].quantity = 0
    /\ filtered[2].status = "posted" /\ filtered[2].quantity = 0 - 500

-----------------------------------------------------------------------------
(* Claims about the filenames and the store *)

\* the date text as it is written: MM-DD-YYYY
DateNameOf(txd) ==
    pad(txd.mm) \o "-" \o pad(Val(txd.dd)) \o "-" \o ToString(txd.yyyy)

\* date a is not after date b
NotAfter(a, b) ==
    \/ a.yyyy < b.yyyy
    \/ a.yyyy = b.yyyy /\ a.mm < b.mm
    \/ a.yyyy = b.yyyy /\ a.mm = b.mm /\ Val(a.dd) <= Val(b.dd)

\* the dates of the entries of the list that read as a date
DatesOf(list) ==
    {list[i].transactionDate : i \in {j \in 1 .. Len(list) : list[j].transactionDate.dd # NaN}}

\* the earliest and the latest of a non-empty set of dates
MinDate(D) == CHOOSE a \in D : \A b \in D : NotAfter(a, b)
MaxDate(D) == CHOOSE a \in D : \A b \in D : NotAfter(b, a)

\* the filename convention: the dates of the entries when there are any,
\* else the bound of the window, else the literal token
ConventionName(list, start, end) ==
    "transactions_"
        \o (IF DatesOf(list) # {} THEN DateNameOf(MinDate(DatesOf(list)))
            ELSE IF start # Null THEN DateNameOf(DateTextOfDay(SydneyDay(Val(start))))
            ELSE "earliest")
        \o "_"
        \o (IF DatesOf(list) # {} THEN DateNameOf(MaxDate(DatesOf(list)))
            ELSE IF end # Null THEN DateNameOf(DateTextOfDay(SydneyDay(Val(end))))
            ELSE "latest")
        \o ".json"

\* C23: the filename suggested by POST /api/scrape is
\* transactions_<start>_<end>.json, <start> and <end> being the minimum and
\* maximum dates among the returned entries when one has a parseable date,
\* otherwise the requested bound when given, otherwise 'earliest' / 'latest'.
C23_PostFileName ==
    (shape = "post" /\ status = 200) =>
        filename = ConventionName(transactionStore, argStart, argEnd)

\* C23 witness: a request without window returned entries from 1 December
\* 2023 to 1 January 2024 and the response is named after these two dates.
C23_Witness ==
    /\ shape = "post" /\ status = 200 /\ argStart = Null /\ argEnd = Null
    /\ Len(transactionStore) >= 2
    /\ filename = "transactions_12-01-2023_01-01-2024.json"

\* C24: the artifact written by getTransactions holds exactly the returned
\* array and is named by the convention of the synchronous shape (the dates
\* of the returned entries when there are any, else the requested window,
\* else 'earliest' / 'latest'); transactions_all.json is used only when both
\* bounds were absent from the request.
C24_ArtifactNamedByConvention ==
    gtpc = "done" =>
        /\ artifact.content = filtered
        /\ \/ artifact.name = ConventionName(filtered, reqStart, reqEnd)
           \/ artifact.name = "transactions_all.json" /\ reqStart = Null /\ reqEnd = Null

\* C25: the server's in-memory store is set to the returned array on every
\* successful extraction performed by the server process (the POST handler
\* and the stream handler alike); a failed scrape leaves it as it was.
C25_StoreSetOnEverySuccess ==
    (shape \in {"post", "stream"} /\ rpc = "done") =>
        transactionStore = IF gtpc = "done" THEN filtered ELSE <<>>

-----------------------------------------------------------------------------
(* Claims about the race in login *)

\* the navigation to the account page completes within the bound of its wait
NavigationCompletes ==
    RaceReached /\ (lo.race = "success" \/ (lo.race = "no-error" /\ lo.later = "success"))

\* C26: the outcome of login is decided by the wait that succeeds first; the
\* early failure of one wait alone decides nothing while the other wait is
\* pending, so a navigation that completes within the bound always yields a
\* successful login.
C26_NavigationInTimeIsSuccess == NavigationCompletes => loginErr = ""

-----------------------------------------------------------------------------
(* Claims about the streaming client *)

\* the done frame, an error frame or a transport error
TerminalEvents == {"done", "error", "transport"}

\* a terminal event has been handled in the current run
TerminalHandled == \E i \in 1 .. Len(received) : received[i].event \in TerminalEvents

\* C27: in the streaming client, handling a done frame, an error frame or a
\* transport error leaves the event source closed (the field null) and
\* running false; 'Connection lost' is shown only by a transport error that
\* arrives while the run is in progress, never after a done or error frame
\* was handled; and running is true from the start of a run until one of
\* these three events.
C27_ClientTerminalEvents ==
    /\ TerminalHandled => (eventSource = "null" /\ sources = 0 /\ ~running)
    /\ \A i \in 1 .. Len(received) :
          received[i].shown = ConnectionLost =>
              /\ received[i].event = "transport"
              /\ \A j \in 1 .. (i - 1) : received[j].event = "progress"
    /\ (runs > 0 /\ ~TerminalHandled) => (running /\ eventSource = "open")

\* C27 witness: after a progress frame the transport failed: the message is
\* shown, the source is closed and the run is over.
C27_Witness ==
    /\ Len(received) = 2
    /\ received[1].event = "progress" /\ received[2].event = "transport"
    /\ message = ConnectionLost /\ ~running /\ eventSource = "null" /\ sources = 0

-----------------------------------------------------------------------------
(* Claims about which entries are stamped *)

\* the entries of the list that belong to the account named a all have, or
\* all lack, a stamp, as wanted
AllStamped(list, a, wanted) ==
    \A k \in 1 .. Len(list) :
        list[k].accountId = a => ((list[k].bankImportedBalance # Null) <=> wanted)

\* C28: within one run an entry has a non-null impliedBalance exactly when
\* the suppression flag is clear and the displayed balance of its account was
\* readable: the entries of an account are all stamped or all null, those of
\* an account without a readable balance are all null, and the date filter
\* changes no stamp (the entries returned are entries extracted).
C28_StampedIffFlagClearAndReadable ==
    /\ \A i \in 1 .. Len(cards) :
          ~cards[i].blocked =>
              AllStamped(results, cards[i].name,
                         ~disableBankImported /\ DisplayedBalance(cards[i]) # Null)
    /\ gtpc = "done" =>
          /\ IsSubSeq(filtered, results)
          /\ \A i \in 1 .. Len(cards) :
                ~cards[i].blocked =>
                    AllStamped(filtered, cards[i].name,
                               ~disableBankImported /\ DisplayedBalance(cards[i]) # Null)

\* C28 witness: a finished run with the flag clear that returns a stamped
\* entry of an account with a readable balance and an entry without stamp of
\* an account whose balance could not be read.
C28_Witness ==
    /\ gtpc = "done" /\ ~disableBankImported /\ Len(filtered) >= 2
    /\ \E i, j \in 1 .. Len(cards) :
          /\ DisplayedBalance(cards[i]) # Null /\ DisplayedBalance(cards[j]) = Null
          /\ \E k, l \in 1 .. Len(filtered) :
                /\ filtered[k].accountId = cards[i].name
                /\ filtered[k].bankImportedBalance # Null
                /\ filtered[l].accountId = cards[j].name
                /\ filtered[l].bankImportedBalance = Null

=============================================================================
